---- MODULE Spec2Model ----
(***************************************************************************)
(* A model of the vengeful-vineyard frontend:                              *)
(*   - EditGroupMembersModal (views/groups/modal/EditGroupMembersModal.tsx) *)
(*     together with the backend it talks to and the data-fetching library  *)
(*     that delivers group data and mutation results (specification Spec,   *)
(*     and FairSpec for the claims that assume the refetch completes);       *)
(*   - the svelte stores term/users/showInactive/... and the derived store  *)
(*     filteredUsers (specification FilterSpec);                            *)
(*   - Layout (views/layout/Layout.tsx) (specification LayoutSpec).         *)
(*                                                                         *)
(* Strings that are compared or searched (names, the search term) are      *)
(* sequences of character codes; strings that are only tested for equality *)
(* (roles, permissions, notification texts) are TLA+ strings.               *)
(***************************************************************************)
EXTENDS Integers, Sequences, FiniteSets, TLC

VARIABLES
  \* ---- the backend (one group) and the requests in flight
  backend,             \* [members : SUBSET Users, perms : [Users -> Seq(STRING)]]
  requests,            \* mutation requests sent and not yet answered
  fetching,            \* a groupLeaderboard fetch is in flight
  \* ---- EditGroupMembersModal
  groupData,           \* useGroupLeaderboard's data (NoGroup while undefined)
  members,             \* useState<GroupUser[]>([])
  selectedPerson,      \* useState<GroupUser | undefined>(undefined)
  currentRole,         \* useState<string>("")
  currentRolesOptions, \* useState<ListboxOption<string>[]>([])
  currentUserRole,     \* useState<string>("")
  confirm,             \* the confirm modal: [open, kind, selected]
  notification,        \* the last setNotification argument
  sent,                \* how many mutation requests were sent so far
  \* ---- the svelte stores
  term, users, showInactive, showPaid, filterOnPunishments, filteredUsers,
  localStorage,        \* the browser's localStorage: its "users" item
  \* ---- Layout
  auth, view, authHeader

modalVars == <<backend, requests, fetching, groupData, members, selectedPerson,
               currentRole, currentRolesOptions, currentUserRole, confirm,
               notification, sent>>
storeVars == <<term, users, showInactive, showPaid, filterOnPunishments,
               filteredUsers, localStorage>>
layoutVars == <<auth, view, authHeader>>
vars == <<modalVars, storeVars, layoutVars>>

(***************************************************************************)
(* Bounds of the model.                                                    *)
(***************************************************************************)
\* mutation requests the user sends in one run of the modal
MaxSent == 2

(***************************************************************************)
(* Character strings.                                                      *)
(***************************************************************************)
\* character codes: 0 is the space, 1..3 are a..c, 11..13 are A..C
SPACE == 0

\* String.prototype.toLocaleLowerCase, character by character
LowerChar(c) == IF c > 10 THEN c - 10 ELSE c

toLocaleLowerCase(s) == [i \in 1..Len(s) |-> LowerChar(s[i])]

\* String.prototype.localeCompare on strings of lower-case letters and spaces:
\* -1, 0 or 1 by the first differing character, a proper prefix sorting first
RECURSIVE localeCompare(_, _)
localeCompare(a, b) ==
  IF a = <<>> /\ b = <<>> THEN 0
  ELSE IF a = <<>> THEN -1
  ELSE IF b = <<>> THEN 1
  ELSE IF Head(a) < Head(b) THEN -1
  ELSE IF Head(a) > Head(b) THEN 1
  ELSE localeCompare(Tail(a), Tail(b))

\* String.prototype.includes: t occurs in s at some offset, scanning from the left
RECURSIVE includesFrom(_, _, _)
includesFrom(s, t, k) ==
  IF k + Len(t) > Len(s) THEN FALSE
  ELSE IF SubSeq(s, k + 1, k + Len(t)) = t THEN TRUE
  ELSE includesFrom(s, t, k + 1)

includes(s, t) == includesFrom(s, t, 0)

(***************************************************************************)
(* Group users, roles and the permission table.                            *)
(***************************************************************************)
Users == {1, 2, 3}

\* useCurrentUser().currentUser.user_id
Me == 1

\* the users' names (the backend's user table; names do not change)
FirstName(u) == CASE u = 1 -> <<2>> [] u = 2 -> <<1>> [] OTHER -> <<1, SPACE, 2>>
LastName(u)  == CASE u = 1 -> <<1>> [] u = 2 -> <<2, SPACE, 3>> [] OTHER -> <<3>>

\* GroupUser (the fields the modal reads)
GroupUser(u, perms) ==
  [user_id |-> u, first_name |-> FirstName(u), last_name |-> LastName(u),
   permissions |-> perms]

\* `undefined` as a value of selectedPerson: selectedPerson?.user_id is undefined
\* (0 here) and selectedPerson?.permissions.at(0) ?? "" is ""
Undefined == [user_id |-> 0, first_name |-> <<>>, last_name |-> <<>>, permissions |-> <<>>]

RoleValues == {"group.owner", "group.admin", "group.member"}

\* Group.roles: [label, value] tuples
GroupRoles ==
  << <<"Leder", "group.owner">>, <<"Administrator", "group.admin">>,
     <<"Medlem", "group.member">> >>

\* Group.permissions: what each role holds (permissions, and the roles it may give)
GroupPermissions ==
  [r \in RoleValues |->
     CASE r = "group.owner" ->
            <<"group.ownership.transfer", "group.members.remove", "group.admin", "group.member">>
       [] r = "group.admin" -> <<"group.members.remove", "group.member">>
       [] OTHER -> <<>>]

\* helpers/permissions.hasPermission(groupPermissions, permission, role)
hasPermission(groupPermissions, permission, role) ==
  /\ role \in DOMAIN groupPermissions
  /\ \E i \in 1..Len(groupPermissions[role]) : groupPermissions[role][i] = permission

\* helpers/permissions.canGiveRole(groupRoles, groupPermissions, roleToGive, currentRole)
canGiveRole(groupRoles, groupPermissions, roleToGive, role) ==
  /\ \E i \in 1..Len(groupRoles) : groupRoles[i][2] = roleToGive
  /\ hasPermission(groupPermissions, roleToGive, role)

\* useGroupLeaderboard's data while the query has none (groupData is undefined)
NoGroup ==
  [loaded |-> FALSE, members |-> <<>>, roles |-> <<>>,
   permissions |-> [r \in {} |-> <<>>]]

\* permissions.at(0) ?? ""
At0(perms) == IF Len(perms) > 0 THEN perms[1] ELSE ""

(***************************************************************************)
(* The backend: group membership and each member's permissions.            *)
(***************************************************************************)
PermValues == {<<>>} \cup {<<r>> : r \in RoleValues}

\* the members of S by ascending user_id
RECURSIVE Ascending(_)
Ascending(S) ==
  IF S = {} THEN <<>>
  ELSE LET m == CHOOSE x \in S : \A y \in S : x <= y
       IN <<m>> \o Ascending(S \ {m})

Reverse(s) == [i \in 1..Len(s) |-> s[Len(s) + 1 - i]]

\* the orders in which the backend lists the members of S: by user_id, either way
Orders(S) == {Ascending(S), Reverse(Ascending(S))}

\* GET group leaderboard: the group as the backend has it, members in order `ord`
GroupResponse(b, ord) ==
  [loaded |-> TRUE,
   members |-> [i \in 1..Len(ord) |-> GroupUser(ord[i], b.perms[ord[i]])],
   roles |-> GroupRoles,
   permissions |-> GroupPermissions]

BackendRole(b, u) == IF u \in b.members THEN At0(b.perms[u]) ELSE ""

(***************************************************************************)
(* EditGroupMembersModal: the useGroupLeaderboard callback and the effects *)
(***************************************************************************)
\* the key the callback's comparator compares: `${first_name} ${last_name}`
SortKey(m) == m.first_name \o <<SPACE>> \o m.last_name

\* the comparator handed to Array.prototype.sort
CompareMembers(a, b) == localeCompare(SortKey(a), SortKey(b))

\* one step of the (stable) sort: m goes before the first element that compares
\* greater than it
RECURSIVE InsertMember(_, _)
InsertMember(s, m) ==
  IF s = <<>> THEN <<m>>
  ELSE IF CompareMembers(Head(s), m) <= 0
       THEN <<Head(s)>> \o InsertMember(Tail(s), m)
       ELSE <<m>> \o s

\* Array.prototype.sort with CompareMembers
RECURSIVE SortMembers(_)
SortMembers(s) ==
  IF s = <<>> THEN <<>>
  ELSE InsertMember(SortMembers(SubSeq(s, 1, Len(s) - 1)), s[Len(s)])

\* Array.prototype.find((member) => member.user_id === id): the first match, or
\* undefined
RECURSIVE FindMember(_, _)
FindMember(s, id) ==
  IF s = <<>> THEN Undefined
  ELSE IF Head(s).user_id = id THEN Head(s)
  ELSE FindMember(Tail(s), id)

\* group.members.sort(...) without the copy: the group's own array is sorted too
SortInPlace(groupMembers) ==
  [newMembers |-> SortMembers(groupMembers), groupMembers |-> SortMembers(groupMembers)]

\* newMembers = [...group.members]; newMembers.sort(...): the copy is sorted, the
\* group's own array is what it was
CopyAndSort(groupMembers) ==
  [newMembers |-> SortMembers(groupMembers), groupMembers |-> groupMembers]

\* a selection that is kept as it was when the member is no longer found
KeepSelectedPerson(newMembers, sel) ==
  LET found == FindMember(newMembers, sel.user_id)
  IN IF found # Undefined THEN found ELSE sel

\* newSelectedPerson ? newSelectedPerson : newMembers[0]
NewSelectedPerson(newMembers, sel) ==
  LET found == FindMember(newMembers, sel.user_id)
  IN IF found # Undefined THEN found
     ELSE IF newMembers # <<>> THEN newMembers[1] ELSE Undefined

\* the callback given to useGroupLeaderboard, called with every fetched group:
\* what it sets members and selectedPerson to, and the group's members array
\* as the callback leaves it
LeaderboardCallback(group, sel) ==
  LET cs == CopyAndSort(group.members)
  IN [members |-> cs.newMembers,
      selectedPerson |-> NewSelectedPerson(cs.newMembers, sel),
      groupMembers |-> cs.groupMembers]

\* the disabled flag the role options effect gives one option
OptionDisabled(gd, sel, role, value) ==
  LET canGiveRoleCheck == canGiveRole(gd.roles, gd.permissions, value, role)
      isCurrentUser == sel.user_id = Me
  IN \/ (isCurrentUser /\ (role = "group.owner" \/ ~canGiveRoleCheck))
     \/ (~isCurrentUser /\ ~canGiveRoleCheck)

\* the role options effect's body for a defined selectedPerson, run in a render
\* whose groupData is gd and whose currentUserRole is role
RoleOptions(gd, sel, role) ==
  [i \in 1..Len(gd.roles) |->
     [label |-> gd.roles[i][1], value |-> gd.roles[i][2],
      disabled |-> OptionDisabled(gd, sel, role, gd.roles[i][2])]]

\* the currentUserRole effect: the current user's first permission in groupData
CurrentUserRoleOf(gd) == At0(FindMember(gd.members, Me).permissions)

\* isCurrentUserSelected
isCurrentUserSelected == selectedPerson.user_id = Me

(***************************************************************************)
(* The mutations.                                                          *)
(***************************************************************************)
Kinds == {"transfer", "remove", "changeRole"}

\* the request a mutationFn sends, from the hook's current selectedPerson and
\* currentRole: the member in the URL (0: the "" of an undefined selectedPerson)
\* and, for a role change, the body's privilege
MutationRequest(kind) ==
  [kind |-> kind, target |-> selectedPerson.user_id,
   privilege |-> IF kind = "changeRole" THEN currentRole ELSE ""]

\* the error details the backend answers with
Details == {"forbidden", "not found"}

NoTitle == "undefined"

SuccessText(kind) ==
  CASE kind = "transfer" -> "Lederskap ble overført"
    [] kind = "remove" -> "Medlem ble fjernet"
    [] OTHER -> "Rolle ble endret"

ErrorTitle(kind) ==
  CASE kind = "transfer" -> "Lederskap kunne ikke overføres"
    [] kind = "remove" -> "Medlem kunne ikke fjernes"
    [] OTHER -> "Rolle kunne ikke endres"

\* an onSuccess that sets the notification and leaves the query alone
OnSuccessNotInvalidating(kind) ==
  [invalidate |-> FALSE,
   notification |-> [type |-> "success", title |-> NoTitle, text |-> SuccessText(kind)]]

\* onSuccess of the three mutations: invalidateQueries(["groupLeaderboard",
\* group_id]) refetches the mounted query, and a success notification is set
OnSuccess(kind) ==
  [invalidate |-> TRUE,
   notification |-> [type |-> "success", title |-> NoTitle, text |-> SuccessText(kind)]]

\* an onError that invalidates the query as onSuccess does
OnErrorInvalidating(kind, detail) ==
  [invalidate |-> TRUE,
   notification |-> [type |-> "error", title |-> ErrorTitle(kind), text |-> detail]]

\* onError of the three mutations: an error notification from e.response.data.detail
OnError(kind, detail) ==
  [invalidate |-> FALSE,
   notification |-> [type |-> "error", title |-> ErrorTitle(kind), text |-> detail]]

\* whether the backend carries out request r of the current user
Accepts(b, r) ==
  /\ Me \in b.members
  /\ r.target \in b.members
  /\ CASE r.kind = "transfer" ->
            BackendRole(b, Me) = "group.owner" /\ r.target # Me
       [] r.kind = "remove" ->
            /\ hasPermission(GroupPermissions, "group.members.remove", BackendRole(b, Me))
            /\ BackendRole(b, r.target) # "group.owner"
       [] OTHER ->
            /\ canGiveRole(GroupRoles, GroupPermissions, r.privilege, BackendRole(b, Me))
            /\ BackendRole(b, r.target) # "group.owner"

\* the backend after it carried out r
Apply(b, r) ==
  CASE r.kind = "transfer" ->
         [b EXCEPT !.perms[r.target] = <<"group.owner">>, !.perms[Me] = <<"group.admin">>]
    [] r.kind = "remove" ->
         [members |-> b.members \ {r.target}, perms |-> [b.perms EXCEPT ![r.target] = <<>>]]
    [] OTHER -> [b EXCEPT !.perms[r.target] = <<r.privilege>>]

(***************************************************************************)
(* The state after the modal is mounted.                                   *)
(***************************************************************************)
\* the group as the modal opens: the current user owns it, user 2 is an
\* administrator, user 3 holds no permission
InitBackends ==
  {[members |-> Users,
    perms |-> [u \in Users |-> CASE u = Me -> <<"group.owner">>
                                  [] u = 2 -> <<"group.admin">>
                                  [] OTHER -> <<>>]]}

NoConfirm == [open |-> FALSE, kind |-> "", selected |-> 0]

NoNotification == [type |-> "none", title |-> "", text |-> ""]

\* localStorage without a "users" item: getItem("users") returns null
NoItem == <<>>

StoresIdle ==
  /\ term = <<>> /\ users = <<>> /\ showInactive = "undefined"
  /\ showPaid = "undefined" /\ filterOnPunishments = "undefined"
  /\ filteredUsers = <<>> /\ localStorage = NoItem

LayoutIdle ==
  /\ auth = [activeNavigator |-> "undefined", isLoading |-> TRUE, error |-> FALSE,
             isAuthenticated |-> FALSE, access_token |-> 0]
  /\ view = "spinner"
  /\ authHeader = <<>>

ModalInit ==
  /\ backend \in InitBackends
  /\ requests = {}
  /\ fetching = TRUE            \* enabled: !!selectedGroup
  /\ groupData = NoGroup
  /\ members = <<>>
  /\ selectedPerson = Undefined
  /\ currentRole = ""
  /\ currentRolesOptions = <<>>
  /\ currentUserRole = ""
  /\ confirm = NoConfirm
  /\ notification = NoNotification
  /\ sent = 0

Init == ModalInit /\ StoresIdle /\ LayoutIdle

(***************************************************************************)
(* The group leaderboard query.                                            *)
(***************************************************************************)
\* What the role options effect (deps [selectedPerson]) leaves in currentRole
\* and currentRolesOptions after a fetch that made newSel the selected person.
\* The callback's state updates and the query's new data are rendered together,
\* and the effect runs after that render when selectedPerson is another object
\* than before: always when the member's data changed, and possibly for an equal
\* object that the fetch built anew. It reads the currentUserRole of that render,
\* which is the state as it was before this fetch: the currentUserRole effect
\* runs after the same render and its setCurrentUserRole shows in the next one.
RoleOptionsEffects(newGroupData, newSel) ==
  LET ran == {[currentRole |-> At0(newSel.permissions),
               currentRolesOptions |-> RoleOptions(newGroupData, newSel, currentUserRole)]}
      skipped == {[currentRole |-> currentRole,
                   currentRolesOptions |-> currentRolesOptions]}
  IN IF newSel = Undefined THEN skipped
     ELSE IF newSel # selectedPerson THEN ran
     ELSE ran \cup skipped

\* A fetch completes with the group as the backend has it, its members in order
\* `ord`. The callback sets members and selectedPerson; the render that follows
\* has the new groupData and selectedPerson, the role options effect runs as
\* RoleOptionsEffects says, and the currentUserRole effect (deps [currentUser,
\* groupData]) sets currentUserRole from the new groupData.
FetchComplete(ord) ==
  LET group == GroupResponse(backend, ord)
      cb == LeaderboardCallback(group, selectedPerson)
      newGroupData == [group EXCEPT !.members = cb.groupMembers]
      newUserRole == CurrentUserRoleOf(newGroupData)
  IN /\ fetching
     /\ fetching' = FALSE
     /\ groupData' = newGroupData
     /\ members' = cb.members
     /\ selectedPerson' = cb.selectedPerson
     /\ currentUserRole' = newUserRole
     /\ \E e \in RoleOptionsEffects(newGroupData, cb.selectedPerson) :
          /\ currentRole' = e.currentRole
          /\ currentRolesOptions' = e.currentRolesOptions
     /\ UNCHANGED <<sent, backend, requests, confirm, notification, storeVars, layoutVars>>

\* a fetch fails: the query keeps its data, the callback is not called
FetchError ==
  /\ fetching
  /\ fetching' = FALSE
  /\ UNCHANGED <<sent, backend, requests, groupData, members, selectedPerson, currentRole,
                 currentRolesOptions, currentUserRole, confirm, notification,
                 storeVars, layoutVars>>

\* the library refetches the mounted query in the background (window focus,
\* reconnect)
BackgroundRefetch ==
  /\ ~fetching
  /\ fetching' = TRUE
  /\ UNCHANGED <<sent, backend, requests, groupData, members, selectedPerson, currentRole,
                 currentRolesOptions, currentUserRole, confirm, notification,
                 storeVars, layoutVars>>

(***************************************************************************)
(* The user's actions in the modal (none while the confirm modal is open). *)
(***************************************************************************)
IsMember(m) == \E i \in 1..Len(members) : members[i] = m

\* PersonSelect: setSelectedPerson(m) for a member of the list; the role options
\* effect runs in the render that follows
SelectPerson(m) ==
  /\ groupData.loaded /\ ~confirm.open
  /\ IsMember(m) /\ m # selectedPerson
  /\ selectedPerson' = m
  /\ currentRole' = At0(m.permissions)
  /\ currentRolesOptions' = RoleOptions(groupData, m, currentUserRole)
  /\ UNCHANGED <<sent, backend, requests, fetching, groupData, members, currentUserRole,
                 confirm, notification, storeVars, layoutVars>>

\* Listbox onChange: setCurrentRole(value), for an option that is not disabled
ChooseRole(value) ==
  /\ groupData.loaded /\ ~confirm.open
  /\ \E i \in 1..Len(currentRolesOptions) :
        currentRolesOptions[i].value = value /\ ~currentRolesOptions[i].disabled
  /\ value # currentRole
  /\ currentRole' = value
  /\ UNCHANGED <<sent, backend, requests, fetching, groupData, members, selectedPerson,
                 currentRolesOptions, currentUserRole, confirm, notification,
                 storeVars, layoutVars>>

\* mutate(): the mutationFn of the hook's latest render sends the request
CanSend(kind) ==
  /\ sent < MaxSent
  /\ MutationRequest(kind) \notin requests

Send(kind) ==
  /\ requests' = requests \cup {MutationRequest(kind)}
  /\ sent' = sent + 1

\* setConfirmModalType, setConfirmModalOptions({onClose}), setConfirmModalOpen(true).
\* `selected` records the member selected when the button was clicked; the code
\* keeps no such value, and no action reads it
OpenConfirm(kind) ==
  confirm' = [open |-> TRUE, kind |-> kind, selected |-> selectedPerson.user_id]

\* the "Endre rolle" button's disabled prop
ChangeRoleDisabled ==
  \/ ~\E i \in 1..Len(currentRolesOptions) : ~currentRolesOptions[i].disabled
  \/ currentRole = At0(selectedPerson.permissions)

\* an "Endre rolle" onClick that asks for no confirmation, whoever is selected
ClickChangeRoleWithoutConfirm ==
  /\ groupData.loaded /\ ~confirm.open
  /\ ~ChangeRoleDisabled
  /\ CanSend("changeRole") /\ Send("changeRole") /\ UNCHANGED confirm
  /\ UNCHANGED <<backend, fetching, groupData, members, selectedPerson, currentRole,
                 currentRolesOptions, currentUserRole, notification, storeVars,
                 layoutVars>>

\* "Endre rolle" onClick
ClickChangeRole ==
  /\ groupData.loaded /\ ~confirm.open
  /\ ~ChangeRoleDisabled
  /\ IF isCurrentUserSelected
     THEN OpenConfirm("changeRole") /\ UNCHANGED <<requests, sent>>
     ELSE CanSend("changeRole") /\ Send("changeRole") /\ UNCHANGED confirm
  /\ UNCHANGED <<backend, fetching, groupData, members, selectedPerson, currentRole,
                 currentRolesOptions, currentUserRole, notification, storeVars,
                 layoutVars>>

\* the "Overfør lederskap" button is rendered and enabled
TransferShown ==
  /\ hasPermission(groupData.permissions, "group.ownership.transfer", currentUserRole)
  /\ ~isCurrentUserSelected

\* "Overfør lederskap" onClick
ClickTransfer ==
  /\ groupData.loaded /\ ~confirm.open
  /\ TransferShown
  /\ OpenConfirm("transfer")
  /\ UNCHANGED <<sent, backend, requests, fetching, groupData, members, selectedPerson,
                 currentRole, currentRolesOptions, currentUserRole, notification,
                 storeVars, layoutVars>>

\* the "Fjern fra gruppa" button is rendered and enabled
RemoveShown ==
  /\ hasPermission(groupData.permissions, "group.members.remove", currentUserRole)
  /\ ~isCurrentUserSelected

\* "Fjern fra gruppa" onClick
ClickRemove ==
  /\ groupData.loaded /\ ~confirm.open
  /\ RemoveShown
  /\ OpenConfirm("remove")
  /\ UNCHANGED <<sent, backend, requests, fetching, groupData, members, selectedPerson,
                 currentRole, currentRolesOptions, currentUserRole, notification,
                 storeVars, layoutVars>>

\* the confirm modal closes and calls onClose(retval): if (retval) mutate()
ConfirmClose(retval) ==
  /\ confirm.open
  /\ confirm' = NoConfirm
  /\ IF retval
     THEN CanSend(confirm.kind) /\ Send(confirm.kind)
     ELSE UNCHANGED <<requests, sent>>
  /\ UNCHANGED <<backend, fetching, groupData, members, selectedPerson, currentRole,
                 currentRolesOptions, currentUserRole, notification, storeVars,
                 layoutVars>>

(***************************************************************************)
(* The backend answers.                                                    *)
(***************************************************************************)
\* the result handler's effect on the query and the notification
Settle(result) ==
  /\ fetching' = (fetching \/ result.invalidate)
  /\ notification' = result.notification

\* the backend carries out r and answers 2xx: onSuccess
MutationSuccess(r) ==
  /\ r \in requests
  /\ Accepts(backend, r)
  /\ backend' = Apply(backend, r)
  /\ requests' = requests \ {r}
  /\ Settle(OnSuccess(r.kind))
  /\ UNCHANGED <<sent, groupData, members, selectedPerson, currentRole, currentRolesOptions,
                 currentUserRole, confirm, storeVars, layoutVars>>

\* the backend refuses r with an error payload: onError
MutationError(r, detail) ==
  /\ r \in requests
  /\ requests' = requests \ {r}
  /\ Settle(OnError(r.kind, detail))
  /\ UNCHANGED <<sent, backend, groupData, members, selectedPerson, currentRole,
                 currentRolesOptions, currentUserRole, confirm, storeVars, layoutVars>>

\* another member (not the owner) leaves the group
MemberLeaves(u) ==
  /\ u \in backend.members /\ u # Me
  /\ BackendRole(backend, u) # "group.owner"
  /\ backend' = [members |-> backend.members \ {u},
                 perms |-> [backend.perms EXCEPT ![u] = <<>>]]
  /\ UNCHANGED <<sent, requests, fetching, groupData, members, selectedPerson, currentRole,
                 currentRolesOptions, currentUserRole, confirm, notification,
                 storeVars, layoutVars>>

Next ==
  \/ \E ord \in Orders(backend.members) : FetchComplete(ord)
  \/ FetchError
  \/ BackgroundRefetch
  \/ \E i \in 1..Len(members) : SelectPerson(members[i])
  \/ \E v \in RoleValues : ChooseRole(v)
  \/ ClickChangeRole
  \/ ClickTransfer
  \/ ClickRemove
  \/ \E retval \in BOOLEAN : ConfirmClose(retval)
  \/ \E r \in requests : MutationSuccess(r)
  \/ \E r \in requests, d \in Details : MutationError(r, d)
  \/ \E u \in Users : MemberLeaves(u)

Spec == Init /\ [][Next]_vars

\* the modal under the assumption that every refetch completes and that nobody
\* else changes the group: no failed fetch, no member leaving on their own
FetchCompletes == \E ord \in Orders(backend.members) : FetchComplete(ord)

FairNext ==
  \/ FetchCompletes
  \/ BackgroundRefetch
  \/ \E i \in 1..Len(members) : SelectPerson(members[i])
  \/ \E v \in RoleValues : ChooseRole(v)
  \/ ClickChangeRole
  \/ ClickTransfer
  \/ ClickRemove
  \/ \E retval \in BOOLEAN : ConfirmClose(retval)
  \/ \E r \in requests : MutationSuccess(r)
  \/ \E r \in requests, d \in Details : MutationError(r, d)

\* a fetch in flight settles. Of the steps of FairNext exactly those of
\* FetchCompletes take fetching from TRUE to FALSE, and FetchCompletes is enabled
\* whenever fetching holds, so weak fairness of FetchSettles is weak fairness of
\* FetchCompletes
FetchSettles == fetching /\ fetching' = FALSE

FairSpec == Init /\ [][FairNext]_vars /\ WF_fetching(FetchSettles)

(***************************************************************************)
(* Properties of EditGroupMembersModal.                                    *)
(***************************************************************************)
Range(s) == {s[i] : i \in 1..Len(s)}

Count(s, x) == Cardinality({i \in 1..Len(s) : s[i] = x})

IsPermutation(s, t) ==
  /\ Len(s) = Len(t)
  /\ \A x \in Range(s) \cup Range(t) : Count(s, x) = Count(t, x)

\* a <= b in the order of the strings: a is a prefix of b, or a has the smaller
\* character at the first place where they differ
KeyLeq(a, b) ==
  \E k \in 0..Len(a) :
     /\ k <= Len(b)
     /\ \A i \in 1..k : a[i] = b[i]
     /\ (k = Len(a) \/ (k < Len(b) /\ a[k + 1] < b[k + 1]))

FullName(m) == m.first_name \o <<SPACE>> \o m.last_name

\* the requests a step sends
SentNow == requests' \ requests

\* the group's members as the backend has them, in some order
BackendHas(ms) ==
  /\ {ms[i].user_id : i \in 1..Len(ms)} = backend.members
  /\ Len(ms) = Cardinality(backend.members)
  /\ \A i \in 1..Len(ms) : ms[i].permissions = backend.perms[ms[i].user_id]

\* C1: a failed mutation sets one error notification (type "error", the title of
\* the operation, the backend's detail as text) and nothing else: the query is
\* not invalidated, the request is not sent again, and members, selectedPerson,
\* currentRole and currentRolesOptions stay what they were.
C1_FailureOnlyNotifies ==
  [][\A r \in requests, d \in Details :
       MutationError(r, d) =>
         /\ notification' =
              [type |-> "error",
               title |-> CASE r.kind = "transfer" -> "Lederskap kunne ikke overføres"
                           [] r.kind = "remove" -> "Medlem kunne ikke fjernes"
                           [] r.kind = "changeRole" -> "Rolle kunne ikke endres",
               text |-> d]
         /\ fetching' = fetching
         /\ requests' = requests \ {r}
         /\ UNCHANGED <<members, selectedPerson, currentRole, currentRolesOptions,
                        groupData, backend>>]_vars

\* C1 witness: a failed mutation was reported while group data is shown, no fetch
\* was started and no request is left in flight.
C1_Witness ==
  /\ notification.type = "error" /\ notification.text = "forbidden"
  /\ groupData.loaded /\ selectedPerson # Undefined
  /\ ~fetching /\ requests = {} /\ sent = 1

\* C2: every successful mutation invalidates the group leaderboard query (a
\* refetch is in flight afterwards) and sets a success notification; when no
\* fetch is in flight the modal's members are the backend's members, and a list
\* that differs from the backend's is followed by one that equals it, in
\* whatever order the mutations completed.
C2_SuccessInvalidates ==
  /\ [][\A r \in requests :
          MutationSuccess(r) =>
            /\ fetching'
            /\ notification'.type = "success"
            /\ notification'.text =
                 (CASE r.kind = "transfer" -> "Lederskap ble overført"
                    [] r.kind = "remove" -> "Medlem ble fjernet"
                    [] r.kind = "changeRole" -> "Rolle ble endret")]_vars
  /\ [](~fetching => BackendHas(members))
  /\ (fetching ~> ~fetching)
  /\ (~BackendHas(members) ~> BackendHas(members))

\* C2 witness: two mutations were carried out, the refetch completed, and the
\* list shows the group without the removed member.
C2_Witness ==
  /\ sent = 2 /\ requests = {} /\ ~fetching
  /\ notification.type = "success"
  /\ backend.members # Users
  /\ BackendHas(members)

\* C4: after every completed fetch members is a permutation of the fetched
\* group's members, non-decreasing by "first_name last_name", and the fetched
\* group's own members array is in the order in which it was fetched.
C4_MembersSorted ==
  [][\A ord \in Orders(backend.members) :
       FetchComplete(ord) =>
         /\ IsPermutation(members', GroupResponse(backend, ord).members)
         /\ \A i, j \in 1..Len(members') :
               i < j => KeyLeq(FullName(members'[i]), FullName(members'[j]))
         /\ groupData'.members = GroupResponse(backend, ord).members]_vars

\* C4 witness: a fetch of three members was completed and the list is in another
\* order than the fetched array.
C4_Witness ==
  /\ groupData.loaded /\ Len(members) = 3
  /\ members # groupData.members
  /\ members[3].user_id = Me

\* C5: a remove-member request is sent only while the current user's role has
\* "group.members.remove", a transfer-ownership request only while it has
\* "group.ownership.transfer", and neither is sent with the current user as the
\* target member.
C5_GatedRequests ==
  [][\A r \in SentNow :
       /\ r.kind = "remove" =>
            /\ hasPermission(groupData.permissions, "group.members.remove", currentUserRole)
            /\ r.target # Me
       /\ r.kind = "transfer" =>
            /\ hasPermission(groupData.permissions, "group.ownership.transfer", currentUserRole)
            /\ r.target # Me]_vars

\* C6: every change-role request carries a role that the current user's role, as
\* found in the latest fetched group data, may give, and never the role the
\* selected member already holds.
C6_RoleRequestsAllowed ==
  [][\A r \in SentNow :
       r.kind = "changeRole" =>
         /\ canGiveRole(groupData.roles, groupData.permissions, r.privilege,
                        CurrentUserRoleOf(groupData))
         /\ r.privilege # At0(selectedPerson.permissions)]_vars

\* C7: a transfer-ownership request, a remove-member request and a change-role
\* request for the current user are sent only by the confirm modal closing
\* affirmatively after it was opened for that action; closing it negatively sends
\* nothing; clicking "Endre rolle" with another member selected sends the request
\* at once and opens no confirm modal.
C7_ConfirmedRequests ==
  [][/\ \A r \in SentNow :
          (r.kind \in {"transfer", "remove"} \/ r.target = Me) =>
             /\ confirm.open /\ confirm.kind = r.kind
             /\ ConfirmClose(TRUE)
     /\ ConfirmClose(FALSE) => requests' = requests
     /\ (ClickChangeRole /\ ~isCurrentUserSelected) =>
          /\ SentNow = {[kind |-> "changeRole", target |-> selectedPerson.user_id,
                         privilege |-> currentRole]}
          /\ confirm' = confirm /\ ~confirm.open]_vars

\* C7 witness: a change-role request for the current user is in flight.
C7_Witness ==
  \E r \in requests : r.kind = "changeRole" /\ r.target = Me

\* C8: whenever group data is loaded and a person is selected, a role option is
\* disabled exactly when the current user's role in the latest group data cannot
\* give that role, or the selected person is the current user and that role is
\* "group.owner".
C8_OptionsCurrent ==
  (groupData.loaded /\ selectedPerson # Undefined) =>
     /\ Len(currentRolesOptions) = Len(groupData.roles)
     /\ \A i \in 1..Len(currentRolesOptions) :
          /\ currentRolesOptions[i].value = groupData.roles[i][2]
          /\ currentRolesOptions[i].disabled <=>
               \/ ~canGiveRole(groupData.roles, groupData.permissions,
                               groupData.roles[i][2], CurrentUserRoleOf(groupData))
               \/ (selectedPerson.user_id = Me
                     /\ CurrentUserRoleOf(groupData) = "group.owner")

\* C10: after every completed fetch selectedPerson is the fetched member with the
\* user_id of the person selected before, if that member is still in the group,
\* else the first member of the sorted list, else undefined; so selectedPerson is
\* always undefined or a member of the current list, and a member the fetched
\* group no longer has is not selected after the fetch.
C10_SelectionFollowsFetch ==
  /\ [][\A ord \in Orders(backend.members) :
          FetchComplete(ord) =>
            /\ IF selectedPerson.user_id \in backend.members
               THEN /\ selectedPerson'.user_id = selectedPerson.user_id
                    /\ selectedPerson'.permissions = backend.perms[selectedPerson.user_id]
               ELSE IF backend.members = {} THEN selectedPerson' = Undefined
               ELSE selectedPerson' = members'[1]
            /\ selectedPerson' = Undefined \/ selectedPerson'.user_id \in backend.members]_vars
  /\ [](selectedPerson = Undefined \/ \E i \in 1..Len(members) : members[i] = selectedPerson)

\* C10 witness: the selected member was removed, the refetch completed and the
\* selection fell back to the first member of the list.
C10_Witness ==
  /\ notification.text = "Medlem ble fjernet"
  /\ ~fetching /\ requests = {} /\ sent = 1
  /\ Len(members) = 2 /\ selectedPerson = members[1]

\* C11: the member a confirmed remove-member, transfer-ownership or change-role
\* request targets is the member that was selected when the action's button was
\* clicked, also when a refetch of the group leaderboard changed selectedPerson
\* between the click and the confirmation.
C11_TargetSelectedAtClick ==
  [][ConfirmClose(TRUE) => \A r \in SentNow : r.target = confirm.selected]_vars

(***************************************************************************)
(* The svelte stores: term, users, showInactive, showPaid,                 *)
(* filterOnPunishments and the derived store filteredUsers.                *)
(***************************************************************************)
\* the longest users list
MaxUsers == 2

\* the character code of the double quote, which JSON text escapes
QUOTE == 4

\* the users the lists are made of: Ab Ca (active), ba c (inactive),
\* b Ab (active), "a b" c" (inactive, the last name ending in a double quote)
StoreUser(n) ==
  CASE n = 1 -> [user_id |-> 1, first_name |-> <<11, 2>>, last_name |-> <<13, 1>>, active |-> TRUE]
    [] n = 2 -> [user_id |-> 2, first_name |-> <<2, 1>>, last_name |-> <<3>>, active |-> FALSE]
    [] n = 3 -> [user_id |-> 3, first_name |-> <<2>>, last_name |-> <<11, 2>>, active |-> TRUE]
    [] OTHER -> [user_id |-> 4, first_name |-> <<1, SPACE, 2>>, last_name |-> <<3, QUOTE>>, active |-> FALSE]

\* the values of the users store: lists of distinct users
UserLists ==
  UNION {{[i \in 1..n |-> StoreUser(f[i])] :
            f \in {g \in [1..n -> 1..4] : \A i, j \in 1..n : g[i] = g[j] => i = j}} :
         n \in 0..MaxUsers}

\* the search terms: "", "a", "A", "ab", "b", "c", " "
Terms == {<<>>, <<1>>, <<11>>, <<1, 2>>, <<2>>, <<3>>, <<SPACE>>}

\* a writable<boolean>() holds undefined until it is set
Flags == {"undefined", "true", "false"}

\* the values of filterOnPunishments: undefined or a list of punishment type ids
PunishmentFilters == {"undefined", "none", "type 1"}

\* the first filter: ($showInactive ? user : user.active), a user being truthy
ActiveFilter(us, si) ==
  SelectSeq(us, LAMBDA user : IF si = "true" THEN TRUE ELSE user.active)

\* a second filter that lower-cases the term as well
TermFilterIgnoringCase(us, t) ==
  SelectSeq(us, LAMBDA user :
                  \/ includes(toLocaleLowerCase(user.first_name), toLocaleLowerCase(t))
                  \/ includes(toLocaleLowerCase(user.last_name), toLocaleLowerCase(t)))

\* the second filter: the term in the lower-cased first or last name
TermFilter(us, t) ==
  SelectSeq(us, LAMBDA user :
                  \/ includes(toLocaleLowerCase(user.first_name), t)
                  \/ includes(toLocaleLowerCase(user.last_name), t))

\* the derived store's function of [$term, $users, $showInactive,
\* $filterOnPunishments]
DeriveFilteredUsers(t, us, si, fp) == TermFilter(ActiveFilter(us, si), t)

(***************************************************************************)
(* JSON text: a sequence of characters.                                    *)
(***************************************************************************)
\* null as a value of the users store: JSON.parse(null) is null. It is held as a
\* value that no array of users equals
Null == <<[null |-> TRUE]>>

\* the value JSON.parse does not return: it throws a SyntaxError
SyntaxError == <<[error |-> "SyntaxError"]>>

CharCodes == {SPACE, 1, 2, 3, QUOTE, 11, 12, 13}

\* the character with code c
CharOf(c) ==
  CASE c = SPACE -> " " [] c = 1 -> "a" [] c = 2 -> "b" [] c = 3 -> "c"
    [] c = QUOTE -> "\"" [] c = 11 -> "A" [] c = 12 -> "B" [] OTHER -> "C"

\* the code of character ch (-1: a character no name is written with)
CodeOf(ch) ==
  IF \E c \in CharCodes : CharOf(c) = ch
  THEN CHOOSE c \in CharCodes : CharOf(c) = ch
  ELSE -1

Digits == <<"0", "1", "2", "3", "4", "5", "6", "7", "8", "9">>

NullText == <<"n", "u", "l", "l">>
TrueText == <<"t", "r", "u", "e">>
FalseText == <<"f", "a", "l", "s", "e">>

\* the text of a property name with its colon: "user_id":
KeyText(key) ==
  LET name == CASE key = "user_id" -> <<"u", "s", "e", "r", "_", "i", "d">>
                [] key = "first_name" -> <<"f", "i", "r", "s", "t", "_", "n", "a", "m", "e">>
                [] key = "last_name" -> <<"l", "a", "s", "t", "_", "n", "a", "m", "e">>
                [] OTHER -> <<"a", "c", "t", "i", "v", "e">>
  IN <<"\"">> \o name \o <<"\"", ":">>

\* the characters of a string as JSON.stringify writes them between the
\* quotes: a double quote is preceded by a backslash
RECURSIVE Escaped(_)
Escaped(s) ==
  IF s = <<>> THEN <<>>
  ELSE (IF Head(s) = QUOTE THEN <<"\\", "\"">> ELSE <<CharOf(Head(s))>>)
         \o Escaped(Tail(s))

StringifyString(s) == <<"\"">> \o Escaped(s) \o <<"\"">>

\* JSON.stringify of a user: its properties in the order they were created in
StringifyUser(u) ==
  <<"{">> \o KeyText("user_id") \o <<Digits[u.user_id + 1]>>
    \o <<",">> \o KeyText("first_name") \o StringifyString(u.first_name)
    \o <<",">> \o KeyText("last_name") \o StringifyString(u.last_name)
    \o <<",">> \o KeyText("active") \o (IF u.active THEN TrueText ELSE FalseText)
    \o <<"}">>

RECURSIVE StringifyUsers(_)
StringifyUsers(us) ==
  IF us = <<>> THEN <<>>
  ELSE IF Len(us) = 1 THEN StringifyUser(us[1])
  ELSE StringifyUser(us[1]) \o <<",">> \o StringifyUsers(Tail(us))

\* JSON.stringify(value) of a value of the users store
JSONstringify(value) ==
  IF value = Null THEN NullText ELSE <<"[">> \o StringifyUsers(value) \o <<"]">>

\* a failed step of the parser
NoParse == [ok |-> FALSE]

\* whether the text t holds the characters lit from position i on
Expect(t, i, lit) ==
  /\ i + Len(lit) - 1 <= Len(t)
  /\ SubSeq(t, i, i + Len(lit) - 1) = lit

\* the string whose characters start at position i, after the opening quote: up
\* to the closing quote, a backslash standing for the character after it
RECURSIVE ParseChars(_, _, _)
ParseChars(t, i, acc) ==
  IF i > Len(t) THEN NoParse
  ELSE IF t[i] = "\"" THEN [ok |-> TRUE, value |-> acc, next |-> i + 1]
  ELSE IF t[i] = "\\"
       THEN IF i + 1 > Len(t) THEN NoParse
            ELSE ParseChars(t, i + 2, Append(acc, CodeOf(t[i + 1])))
  ELSE ParseChars(t, i + 1, Append(acc, CodeOf(t[i])))

ParseString(t, i) ==
  IF Expect(t, i, <<"\"">>) THEN ParseChars(t, i + 1, <<>>) ELSE NoParse

\* a number of one digit at position i
ParseNumber(t, i) ==
  IF i <= Len(t) /\ \E d \in 1..10 : Digits[d] = t[i]
  THEN [ok |-> TRUE, value |-> (CHOOSE d \in 1..10 : Digits[d] = t[i]) - 1, next |-> i + 1]
  ELSE NoParse

ParseBoolean(t, i) ==
  IF Expect(t, i, TrueText) THEN [ok |-> TRUE, value |-> TRUE, next |-> i + Len(TrueText)]
  ELSE IF Expect(t, i, FalseText)
       THEN [ok |-> TRUE, value |-> FALSE, next |-> i + Len(FalseText)]
  ELSE NoParse

\* the user object at position i: {"user_id":n,"first_name":s,"last_name":s,
\* "active":b}
ParseUser(t, i) ==
  LET open == <<"{">> \o KeyText("user_id")
      id == IF Expect(t, i, open) THEN ParseNumber(t, i + Len(open)) ELSE NoParse
      key2 == <<",">> \o KeyText("first_name")
      first == IF id.ok /\ Expect(t, id.next, key2)
               THEN ParseString(t, id.next + Len(key2)) ELSE NoParse
      key3 == <<",">> \o KeyText("last_name")
      last == IF first.ok /\ Expect(t, first.next, key3)
              THEN ParseString(t, first.next + Len(key3)) ELSE NoParse
      key4 == <<",">> \o KeyText("active")
      active == IF last.ok /\ Expect(t, last.next, key4)
                THEN ParseBoolean(t, last.next + Len(key4)) ELSE NoParse
  IN IF active.ok /\ Expect(t, active.next, <<"}">>)
     THEN [ok |-> TRUE,
           value |-> [user_id |-> id.value, first_name |-> first.value,
                      last_name |-> last.value, active |-> active.value],
           next |-> active.next + 1]
     ELSE NoParse

\* the elements of an array from position i on, up to the "]" that ends the text
RECURSIVE ParseUsers(_, _, _)
ParseUsers(t, i, acc) ==
  LET u == ParseUser(t, i)
  IN IF ~u.ok THEN SyntaxError
     ELSE IF Expect(t, u.next, <<",">>) THEN ParseUsers(t, u.next + 1, Append(acc, u.value))
     ELSE IF Expect(t, u.next, <<"]">>) /\ u.next = Len(t) THEN Append(acc, u.value)
     ELSE SyntaxError

\* JSON.parse(text): null, an array of users, or a SyntaxError
JSONparse(text) ==
  IF text = NullText THEN Null
  ELSE IF text = <<"[", "]">> THEN <<>>
  ELSE IF Expect(text, 1, <<"[">>) THEN ParseUsers(text, 2, <<>>)
  ELSE SyntaxError

\* localStorage holding `text` as its "users" item
Item(text) == <<text>>

\* String(localStorage.getItem("users")), the text JSON.parse is given: getItem
\* returns null when there is no item, and JSON.parse reads null as "null"
GetItem(ls) == IF ls = NoItem THEN NullText ELSE ls[1]

\* writable<User[]>(JSON.parse(localStorage.getItem("users"))): the store's
\* initial value
CreateUsers(ls) == JSONparse(GetItem(ls))

\* a subscriber that leaves localStorage as it is
SubscriberNotWriting(ls, value) == ls

\* users.subscribe((value) => (localStorage.users = JSON.stringify(value)))
UsersSubscriber(ls, value) == Item(JSONstringify(value))

\* the "users" items an earlier page load can have left in localStorage
StoredLists == {Item(JSONstringify(us)) : us \in UserLists}

\* the stores and localStorage after the module is evaluated in a browser whose
\* localStorage is ls: the stores are created and the subscriber, called at once
\* with the store's value, has written the item. filteredUsers has no value while
\* users is null ($users.filter throws): it is held as the empty list
StoresLoaded(ls) ==
  LET created == CreateUsers(ls)
  IN [term |-> <<>>,                      \* writable<string>("")
      users |-> created,
      showInactive |-> "undefined",
      showPaid |-> "undefined",
      filterOnPunishments |-> "undefined",
      filteredUsers |-> IF created = Null THEN <<>>
                        ELSE DeriveFilteredUsers(<<>>, created, "undefined", "undefined"),
      localStorage |-> UsersSubscriber(ls, created)]

\* the stores as the module leaves them
StoresAre(s) ==
  /\ term = s.term /\ users = s.users /\ showInactive = s.showInactive
  /\ showPaid = s.showPaid /\ filterOnPunishments = s.filterOnPunishments
  /\ filteredUsers = s.filteredUsers /\ localStorage = s.localStorage

\* the stores created in a browser that holds a list of users
StoresInit == \E ls \in StoredLists : StoresAre(StoresLoaded(ls))

\* the derived store recomputes from the stores it depends on; with users null
\* its function throws and it keeps the value it had
Rederive ==
  filteredUsers' =
    IF users' = Null THEN filteredUsers
    ELSE DeriveFilteredUsers(term', users', showInactive', filterOnPunishments')

SetTerm(t) ==
  /\ term' = t
  /\ UNCHANGED <<users, showInactive, showPaid, filterOnPunishments, localStorage>>
  /\ Rederive
  /\ UNCHANGED <<modalVars, layoutVars>>

\* users.set(us): the store's subscribers run, the localStorage writer first
SetUsers(us) ==
  /\ users' = us
  /\ localStorage' = UsersSubscriber(localStorage, us)
  /\ UNCHANGED <<term, showInactive, showPaid, filterOnPunishments>>
  /\ Rederive
  /\ UNCHANGED <<modalVars, layoutVars>>

SetShowInactive(f) ==
  /\ showInactive' = f
  /\ UNCHANGED <<term, users, showPaid, filterOnPunishments, localStorage>>
  /\ Rederive
  /\ UNCHANGED <<modalVars, layoutVars>>

\* showPaid is not among the stores filteredUsers is derived from
SetShowPaid(f) ==
  /\ showPaid' = f
  /\ UNCHANGED <<term, users, showInactive, filterOnPunishments, filteredUsers,
                 localStorage>>
  /\ UNCHANGED <<modalVars, layoutVars>>

SetFilterOnPunishments(fp) ==
  /\ filterOnPunishments' = fp
  /\ UNCHANGED <<term, users, showInactive, showPaid, localStorage>>
  /\ Rederive
  /\ UNCHANGED <<modalVars, layoutVars>>

FilterInit == ModalInit /\ StoresInit /\ LayoutIdle

FilterNext ==
  \/ \E t \in Terms : SetTerm(t)
  \/ \E us \in UserLists : SetUsers(us)
  \/ \E f \in Flags : SetShowInactive(f)
  \/ \E f \in Flags : SetShowPaid(f)
  \/ \E fp \in PunishmentFilters : SetFilterOnPunishments(fp)

FilterSpec == FilterInit /\ [][FilterNext]_vars

\* t occurs in s
IsSubstring(t, s) ==
  \E k \in 0..Len(s) :
     /\ k + Len(t) <= Len(s)
     /\ \A i \in 1..Len(t) : s[k + i] = t[i]

\* s with its capitals A..C replaced by a..c
Lowered(s) == [i \in 1..Len(s) |-> IF s[i] \in 11..13 THEN s[i] - 10 ELSE s[i]]

\* the user passes the filters as the stores stand
Shown(user) ==
  /\ showInactive = "true" \/ user.active
  /\ \/ IsSubstring(term, Lowered(user.first_name))
     \/ IsSubstring(term, Lowered(user.last_name))

UpdateUsers(i) ==
  /\ users # Null /\ i \in 1..Len(users)
  /\ SetUsers([users EXCEPT ![i].active = ~@])

\* the page is loaded again: the module is evaluated anew, every store is
\* created with its initial value, users from localStorage
Reload ==
  /\ \E s \in {StoresLoaded(localStorage)} :
        /\ term' = s.term /\ users' = s.users /\ showInactive' = s.showInactive
        /\ showPaid' = s.showPaid /\ filterOnPunishments' = s.filterOnPunishments
        /\ filteredUsers' = s.filteredUsers /\ localStorage' = s.localStorage
  /\ UNCHANGED <<modalVars, layoutVars>>

\* the first page load: of a browser without a "users" item, or with one an
\* earlier load left
StorageInit ==
  /\ ModalInit /\ LayoutIdle
  /\ \E ls \in {NoItem} \cup StoredLists : StoresAre(StoresLoaded(ls))

StorageNext ==
  \/ \E t \in Terms : SetTerm(t)
  \/ \E us \in UserLists : SetUsers(us)
  \/ \E i \in 1..MaxUsers : UpdateUsers(i)
  \/ Reload

StorageSpec == StorageInit /\ [][StorageNext]_vars

\* C12: the users store starts as the parse of the localStorage item "users";
\* once the subscription is installed and after every set or update,
\* localStorage.users is the JSON text of the store's value; so a reload
\* re-creates the store with the value it had, null included when no item was
\* stored.
C12_UsersPersisted ==
  /\ [](/\ localStorage = <<JSONstringify(users)>>
        /\ JSONparse(localStorage[1]) = users)
  /\ [][Reload => (users' = users /\ localStorage' = localStorage)]_vars
  /\ [][\A us \in UserLists : SetUsers(us) => localStorage' = <<JSONstringify(us)>>]_vars

\* C12 witness: after an update the list holds a user who was made active and
\* whose last name ends in a double quote, and the item holds the list's text,
\* the quote escaped.
C12_Witness ==
  /\ users = <<[StoreUser(4) EXCEPT !.active = TRUE]>>
  /\ localStorage = <<JSONstringify(users)>>
  /\ \E k \in 1..(Len(localStorage[1]) - 1) :
        localStorage[1][k] = "\\" /\ localStorage[1][k + 1] = "\""

(***************************************************************************)
(* Layout.                                                                 *)
(***************************************************************************)
\* the access tokens the identity provider hands out are 1..MaxTokens
MaxTokens == 2

\* useAuth(): the active navigator, isLoading, whether error is set,
\* isAuthenticated and the user's access token (0: no user). isAuthenticated
\* implies a user.
AuthStates ==
  {a \in [activeNavigator : {"undefined", "signinSilent", "signoutRedirect", "signinRedirect"},
          isLoading : BOOLEAN, error : BOOLEAN, isAuthenticated : BOOLEAN,
          access_token : 0..MaxTokens] :
     a.isAuthenticated => a.access_token # 0}

\* axios.defaults.headers.common["Authorization"] while unset
NoHeader == <<>>

\* `Bearer ${access_token}`
Bearer(token) == <<"Bearer ", token>>

\* a Layout that writes the header before its early returns
LayoutRenderHeaderFirst(a, header) ==
  LET written == IF a.isAuthenticated THEN Bearer(a.access_token) ELSE header
  IN IF a.activeNavigator = "signinSilent" THEN [view |-> "signing in", header |-> written]
     ELSE IF a.activeNavigator = "signoutRedirect" THEN [view |-> "signing out", header |-> written]
     ELSE IF a.isLoading THEN [view |-> "spinner", header |-> written]
     ELSE IF a.error THEN [view |-> "error", header |-> written]
     ELSE [view |-> "content", header |-> written]

\* what one call of Layout returns and the Authorization header it leaves
LayoutRender(a, header) ==
  IF a.activeNavigator = "signinSilent" THEN [view |-> "signing in", header |-> header]
  ELSE IF a.activeNavigator = "signoutRedirect" THEN [view |-> "signing out", header |-> header]
  ELSE IF a.isLoading THEN [view |-> "spinner", header |-> header]
  ELSE IF a.error THEN [view |-> "error", header |-> header]
  ELSE [view |-> "content",
        header |-> IF a.isAuthenticated THEN Bearer(a.access_token) ELSE header]

LayoutInit ==
  /\ auth \in {a \in AuthStates : a.isLoading /\ ~a.error /\ a.access_token = 0
                                    /\ a.activeNavigator = "undefined"}
  /\ authHeader = NoHeader
  /\ view = LayoutRender(auth, NoHeader).view

\* the auth context changes and Layout renders again
AuthChanges(a) ==
  /\ a # auth
  /\ auth' = a
  /\ view' = LayoutRender(a, authHeader).view
  /\ authHeader' = LayoutRender(a, authHeader).header
  /\ UNCHANGED <<modalVars, storeVars>>

LayoutSpecInit == ModalInit /\ StoresIdle /\ LayoutInit

LayoutNext == \E a \in AuthStates : AuthChanges(a)

LayoutSpec == LayoutSpecInit /\ [][LayoutNext]_vars

\* C9: the routed content is rendered only when the navigator is neither
\* "signinSilent" nor "signoutRedirect", auth is not loading and has no error,
\* the checks taking precedence in that order; the Authorization header is
\* written only in such a render with isAuthenticated, to "Bearer " and the
\* user's access token; so content shown to an authenticated user goes with a
\* header that carries the user's current token.
C9_LayoutGuards ==
  /\ [](/\ view = "content" <=>
             /\ auth.activeNavigator \notin {"signinSilent", "signoutRedirect"}
             /\ ~auth.isLoading /\ ~auth.error
        /\ auth.activeNavigator = "signinSilent" => view = "signing in"
        /\ auth.activeNavigator = "signoutRedirect" => view = "signing out"
        /\ (auth.activeNavigator \notin {"signinSilent", "signoutRedirect"} /\ auth.isLoading)
              => view = "spinner"
        /\ (view = "content" /\ auth.isAuthenticated)
              => authHeader = <<"Bearer ", auth.access_token>>)
  /\ [][authHeader' # authHeader =>
          /\ view' = "content" /\ auth'.isAuthenticated
          /\ authHeader' = <<"Bearer ", auth'.access_token>>]_vars

\* C9 witness: content is shown to an authenticated user who holds the second
\* token, with the header carrying that token.
C9_Witness ==
  /\ view = "content" /\ auth.isAuthenticated /\ auth.access_token = 2
  /\ authHeader = <<"Bearer ", 2>>

====
